---- MODULE Spec2Model ----
(***************************************************************************)
(* Model of the cloudnotes Note API: routes/noteRoutes.js (both versions   *)
(* of the router kept in the file), services/noteService.js, the Note      *)
(* schema and the local thumbnail service.                                 *)
(*                                                                         *)
(* Every request is a process. An `await` of the source is a point where   *)
(* other requests may run, so each handler is cut into one action per      *)
(* awaited database, CDN or file-system operation.                         *)
(***************************************************************************)
EXTENDS Naturals, Integers, Sequences, FiniteSets, TLC

\* ---------------------------------------------------------------- bounds
\* Number of Note documents the first version of the router constructs.
MaxNotes == 1
\* Number of Note documents the eager version of the router constructs.
MaxEagerNotes == 2
\* Largest value of the clock (Date.now) the model distinguishes.
MaxTime == 1
\* Number of further URLs a chain of HTTP redirects visits before it leads
\* back to the first one.
MaxRedirects == 1

\* Concurrent requests in flight.
Requests == {"r1", "r2"}

\* ---------------------------------------------------------------- values
Users == {"u1", "u2"}
NoUser == "none"

\* req.session.user as the login code stores it: u2 has no display name.
SessionName(u) == IF u = "u1" THEN "Ann" ELSE ""
SessionUsername(u) == IF u = "u1" THEN "ann" ELSE "bob"

PDF == "application/pdf"
PNG == "image/png"

JsUndef == [t |-> "undefined"]
JsNum == [t |-> "number"]
JsStr(s) == [t |-> "string", v |-> s]

\* JavaScript truthiness of the values above (a number here is non-zero).
Truthy(v) == /\ v.t # "undefined"
             /\ (v.t = "string" => v.v # "")

PlainUrl == "https://cdn/x.pdf"
CloudUrl == "https://res.cloudinary.com/demo/image/upload/v1/pdf_uploads/a.pdf"

\* What multer leaves in req.file.
NoFile == [t |-> "undefined", mimetype |-> "", originalname |-> ""]
File(m) == [t |-> "file", mimetype |-> m, originalname |-> "a.pdf"]
Files == {NoFile, File(PDF), File(PNG)}

\* req.params.id: a string that is or is not a well-formed ObjectId.
Malformed == [wellFormed |-> FALSE, oid |-> 0]
Oid(n) == [wellFormed |-> TRUE, oid |-> n]
IdParams == {Malformed} \cup {Oid(n) : n \in 1..MaxEagerNotes}

\* thumbnailUrl values: absent/empty, the local public path, a CDN URL.
NoThumb == [kind |-> "empty"]
CdnThumb(p) == [kind |-> "cdn", pid |-> p]

EnvVars == {"VERCEL", "AWS_LAMBDA_FUNCTION_NAME", "NETLIFY", "SERVERLESS"}
\* A variable of process.env is unset, set to the empty string or set to "1".
Unset == "unset"

PUBLIC_PREFIX == "/uploads/thumbnails"
LocalThumb(id) == [kind |-> "local", prefix |-> PUBLIC_PREFIX, name |-> id]

VARIABLES
  notes,        \* the Note collection: ObjectId -> stored document
  nextId,       \* the next ObjectId `new Note` hands out
  now,          \* Date.now()
  env,          \* process.env, the four serverless signals
  pdfPoppler,   \* TRUE iff require('pdf-poppler') succeeded at load
  thumbsDir,    \* TRUE iff THUMBS_DIR exists
  thumbFiles,   \* files in THUMBS_DIR: <<noteId, "page"|"final">>
  tmpFiles,     \* files in os.tmpdir(): <<noteId, hop>>
  pc,           \* position of each request
  req,          \* inputs of each request
  doc,          \* the in-memory Note document of each request
  hop,          \* redirects followed by downloadToTemp
  res,          \* the response sent: status and data
  otp,          \* the in-memory OTP table: a set of entries
  issued,       \* per (email, purpose): the code requestCode issued last
  calls         \* mutations and external calls each request has made:
                \* "cdn", "save", "update", "delete", "mkdir", "tmp",
                \* "download", "convert"

vars == <<notes, nextId, now, env, pdfPoppler, thumbsDir,
          thumbFiles, tmpFiles, pc, req, doc, hop, res, otp, issued, calls>>

\* State of the process outside the note routes.
procVars == <<env, pdfPoppler, otp, issued>>
fsVars == <<thumbsDir, thumbFiles, tmpFiles>>

\* ------------------------------------------------------------ the schema
\* new Note({...}): Mongoose casts the String paths; a missing value stays
\* absent, which the model writes as "". uploadedAt defaults to Date.now.
CastString(v) == IF v.t = "string" THEN v.v ELSE ""

NewNote(id, title, fileUrl, fileType, thumb, user, t) ==
  [_id |-> id,
   title |-> CastString(title),
   fileUrl |-> CastString(fileUrl),
   fileType |-> CastString(fileType),
   thumbnailUrl |-> thumb,
   uploader |-> user,
   uploaderName |-> IF SessionName(user) # "" THEN SessionName(user)
                    ELSE SessionUsername(user),
   uploadedAt |-> t]

NoDoc == [_id |-> 0]

\* Mutant: fileUrl is not a required path.
NoteValid_fileUrlOptional(d) ==
  /\ d.title # ""
  /\ d.fileType # ""
  /\ d.uploader \in Users
  /\ d.uploaderName # ""

\* The schema's `required: true` paths; Mongoose rejects "" for a String.
NoteValid(d) ==
  /\ d.title # ""
  /\ d.fileUrl # ""
  /\ d.fileType # ""
  /\ d.uploader \in Users
  /\ d.uploaderName # ""

\* ------------------------------------------------------- the collection
\* Model.findById
findById(id) == IF id \in DOMAIN notes THEN notes[id] ELSE NoDoc

\* Mutant: the document is looked up and left in place.
findByIdAndDelete_keeps(id) == notes

\* Model.findByIdAndDelete: the collection without the document.
findByIdAndDelete(id) == [n \in (DOMAIN notes) \ {id} |-> notes[n]]

\* note.save() of a new document: one insert.
InsertNote(d) == [n \in (DOMAIN notes) \cup {d._id} |->
                    IF n = d._id THEN d ELSE notes[n]]

\* Mutant: the second save writes the whole document back, as an upsert.
SaveModified_upsert(d) == InsertNote(d)

\* Mutant: the second save assigns the public path to fileUrl as well.
SaveModified_clobbers(d) ==
  IF d._id \in DOMAIN notes
  THEN [notes EXCEPT ![d._id].thumbnailUrl = d.thumbnailUrl,
                     ![d._id].fileUrl = d.thumbnailUrl.prefix]
  ELSE notes

\* note.save() of a loaded document whose thumbnailUrl was assigned: an
\* update of the modified path, keyed by _id, never an upsert.
SaveModified(d) ==
  IF d._id \in DOMAIN notes
  THEN [notes EXCEPT ![d._id].thumbnailUrl = d.thumbnailUrl]
  ELSE notes

\* isValidObjectId of utils/helpers.
isValidObjectId(p) == p.wellFormed

\* NoteService.getNoteById
getNoteById(p) == IF ~isValidObjectId(p) THEN NoDoc ELSE findById(p.oid)

\* NoteService.deleteNote
deleteNote(p) == IF ~isValidObjectId(p) THEN notes ELSE findByIdAndDelete(p.oid)

\* -------------------------------------------------- the thumbnail service
\* Mutant: only the VERCEL signal is read.
isServerlessEnv_vercelOnly == env["VERCEL"] # Unset /\ env["VERCEL"] # ""

\* Boolean(x) of a process.env entry: unset and "" are falsy.
EnvTruthy(v) == env[v] # Unset /\ env[v] # ""

isServerlessEnv ==
  EnvTruthy("VERCEL") \/ EnvTruthy("AWS_LAMBDA_FUNCTION_NAME")
    \/ EnvTruthy("NETLIFY") \/ EnvTruthy("SERVERLESS")

\* Files of THUMBS_DIR for a note: what pdf-poppler writes for page 1, and
\* the final name.
generatedPath(id) == <<id, "page">>
finalPath(id) == <<id, "final">>

\* The temp file of one download attempt (the name is fresh per attempt).
tmpPath(id, h) == <<id, h>>

\* ------------------------------------------------------------- requests
TitleInputs == {JsStr("My Notes")}
\* A title that is absent, empty or whitespace only.
BlankTitles == {JsUndef, JsStr(""), JsStr(" ")}
\* req.body.uploader: a body may name any user as the owner.
OwnerInputs == {JsUndef} \cup {JsStr(u) : u \in Users}
FileUrlInputs == {JsUndef, JsNum, JsStr(""), JsStr(PlainUrl), JsStr(CloudUrl)}
FileTypeInputs == {JsUndef, JsStr(PNG)}
ThumbInputs == {JsUndef, JsStr("https://cdn/t.png")}
GivenThumb(s) == [kind |-> "given", url |-> s]

NoBody == [title |-> JsUndef, fileUrl |-> JsUndef, fileType |-> JsUndef,
           thumbnailUrl |-> JsUndef, uploader |-> JsUndef,
           email |-> JsUndef, otp |-> JsUndef]
Bodies == [title : TitleInputs, fileUrl : FileUrlInputs,
           fileType : FileTypeInputs, thumbnailUrl : {JsUndef},
           uploader : {JsUndef}, email : {JsUndef}, otp : {JsUndef}]
EagerBodies == [title : TitleInputs, fileUrl : FileUrlInputs,
                fileType : {JsUndef}, thumbnailUrl : ThumbInputs,
                uploader : {JsUndef}, email : {JsUndef}, otp : {JsUndef}]
\* The multipart fields of POST /upload.
UploadBodies == [title : TitleInputs, fileUrl : {JsUndef},
                 fileType : {JsUndef}, thumbnailUrl : {JsUndef},
                 uploader : {JsUndef}, email : {JsUndef}, otp : {JsUndef}]
\* Bodies with any title and any owner field.
AnyUploadBodies == [title : TitleInputs \cup BlankTitles, fileUrl : {JsUndef},
                    fileType : {JsUndef}, thumbnailUrl : {JsUndef},
                    uploader : OwnerInputs, email : {JsUndef}, otp : {JsUndef}]
AnyBodies == [title : TitleInputs \cup BlankTitles,
              fileUrl : {JsUndef, JsStr(PlainUrl)},
              fileType : {JsUndef}, thumbnailUrl : {JsUndef},
              uploader : OwnerInputs, email : {JsUndef}, otp : {JsUndef}]

Request(k, u, f, b, p) ==
  [kind |-> k, user |-> u, file |-> f, body |-> b, id |-> p]
NoRequest == Request("none", NoUser, NoFile, NoBody, Malformed)

NoRes == [status |-> 0, data |-> <<>>]

\* A request slot is free before its first request and after a response.
Free(r) == pc[r] \in {"idle", "done"}

\* Uploads waiting for the CDN, each of which will construct a Note.
Pending == Cardinality({q \in Requests : pc[q] = "cdn"})

\* apiResponse / res.redirect / the error handler behind asyncHandler: the
\* response is sent and the request, with its locals, is gone.
Respond(r, status, data) ==
  /\ pc' = [pc EXCEPT ![r] = "done"]
  /\ res' = [res EXCEPT ![r] = [status |-> status, data |-> data]]
  /\ req' = [req EXCEPT ![r] = NoRequest]
  /\ doc' = [doc EXCEPT ![r] = NoDoc]
  /\ hop' = [hop EXCEPT ![r] = 0]

\* The request goes on to its next await.
Goto(r, loc) ==
  /\ pc' = [pc EXCEPT ![r] = loc]
  /\ res' = [res EXCEPT ![r] = NoRes]

Called(r, cs) == calls' = [calls EXCEPT ![r] = @ \cup cs]

\* requireAuth of middleware/auth: a request without a session user is
\* answered 401.
requireAuth(q) == q.user # NoUser

\* validateObjectId of middleware/auth: a malformed id is answered 400.
validateObjectId(q) == isValidObjectId(q.id)

\* checkOwnership(Note) of middleware/auth: 404 for no such Note, 403 when
\* the session user is not the stored uploader, 0 to let the request pass.
checkOwnership(q) ==
  LET n == findById(q.id.oid) IN
    IF n = NoDoc THEN 404
    ELSE IF n.uploader # q.user THEN 403
    ELSE 0

\* Mutant: the owner is taken from the body when the body names one.
Owner_fromBody(q) ==
  IF Truthy(q.body.uploader) THEN q.body.uploader.v ELSE q.user

\* uploader: req.session.user.id
Owner(q) == q.user

\* a || b of JavaScript
Or(a, b) == IF Truthy(a) THEN a ELSE b

\* String(x).trim() over the strings the model uses.
Trim(s) == IF s = " " THEN "" ELSE s

\* ------------------------------------------------- POST /api/notes/upload
\* `if (!req.file)` of the upload handler.
UploadRejects(q) == q.file = NoFile

\* What the upload_stream callback receives: an error, or a result whose
\* secure_url (and eager derivation) the CDN may or may not have filled in.
CdnResults ==
  {[error |-> TRUE, secure_url |-> JsUndef, eager |-> JsUndef]}
    \cup [error : {FALSE}, secure_url : {JsUndef, JsStr(CloudUrl)},
          eager : {JsUndef, JsStr("page1")}]

\* requireAuth, upload.single('file'), then the handler up to its first
\* await: the upload stream to the CDN is opened. The fields of the request
\* are drawn as the code reads them.
UploadEntry(r, k, max, bodies) ==
  /\ Free(r)
  /\ \E u \in Users \cup {NoUser} :
       LET q0 == Request(k, u, NoFile, NoBody, Malformed) IN
         IF ~requireAuth(q0)
         THEN Respond(r, 401, <<>>) /\ calls' = [calls EXCEPT ![r] = {}]
         ELSE \E f \in Files :
                LET q1 == [q0 EXCEPT !.file = f] IN
                  IF UploadRejects(q1)
                  THEN Respond(r, 400, <<>>)
                       /\ calls' = [calls EXCEPT ![r] = {}]
                  ELSE \E b \in bodies :
                         /\ nextId + Pending <= max
                         /\ req' = [req EXCEPT ![r] = [q1 EXCEPT !.body = b]]
                         /\ doc' = [doc EXCEPT ![r] = NoDoc]
                         /\ hop' = [hop EXCEPT ![r] = 0]
                         /\ Goto(r, "cdn")
                         /\ calls' = [calls EXCEPT ![r] = {"cdn"}]
  /\ UNCHANGED <<notes, nextId, now, procVars, fsVars>>

BeginUpload(r) == UploadEntry(r, "upload", MaxNotes, UploadBodies)

BeginUploadEager(r) ==
  UploadEntry(r, "uploadEager", MaxEagerNotes, UploadBodies)

\* POST /upload with any title and any owner field in the body.
BeginUploadAny(r) == UploadEntry(r, "upload", MaxNotes, AnyUploadBodies)

\* The CDN answers; on success the handler constructs the Note and calls
\* save(), on error the promise rejects and asyncHandler answers 500.
UploadCdnDone(r) ==
  /\ pc[r] = "cdn" /\ req[r].kind = "upload"
  /\ \E out \in CdnResults :
       IF out.error
       THEN Respond(r, 500, <<>>) /\ UNCHANGED nextId
       ELSE /\ doc' = [doc EXCEPT ![r] =
                 NewNote(nextId,
                         Or(req[r].body.title, JsStr(req[r].file.originalname)),
                         out.secure_url, JsStr(req[r].file.mimetype),
                         NoThumb, Owner(req[r]), now)]
            /\ nextId' = nextId + 1
            /\ Goto(r, "save1")
            /\ UNCHANGED <<req, hop>>
  /\ UNCHANGED <<notes, now, procVars, fsVars, calls>>

\* The eager version: the CDN stores a PDF and derives the first page.
UploadEagerCdnDone(r) ==
  /\ pc[r] = "cdn" /\ req[r].kind = "uploadEager"
  /\ \E out \in CdnResults :
       IF out.error
       THEN Respond(r, 500, <<>>) /\ UNCHANGED nextId
       ELSE /\ doc' = [doc EXCEPT ![r] =
                 NewNote(nextId,
                         Or(req[r].body.title, JsStr(req[r].file.originalname)),
                         out.secure_url, JsStr(PDF),
                         IF Truthy(out.eager) THEN GivenThumb(out.eager.v)
                         ELSE NoThumb,
                         Owner(req[r]), now)]
            /\ nextId' = nextId + 1
            /\ Goto(r, "saveEager")
            /\ UNCHANGED <<req, hop>>
  /\ UNCHANGED <<notes, now, procVars, fsVars, calls>>

\* ------------------------------------------------- POST /api/notes/create
\* Mutant: only the type of fileUrl is checked.
CreateRejects_typeOnly(q) == q.body.fileUrl.t # "string"

\* `if (!fileUrl || typeof fileUrl !== 'string')`
CreateRejects(q) == ~Truthy(q.body.fileUrl) \/ q.body.fileUrl.t # "string"

\* title && String(title).trim() ? String(title).trim() : 'Untitled'
CreateTitle(t) ==
  IF Truthy(t) /\ Trim(t.v) # "" THEN JsStr(Trim(t.v)) ELSE JsStr("Untitled")

\* requireAuth, then the handler up to `await note.save()`.
CreateEntry(r, bodies) ==
  /\ Free(r)
  /\ calls' = [calls EXCEPT ![r] = {}]
  /\ \E u \in Users \cup {NoUser} :
       LET q0 == Request("create", u, NoFile, NoBody, Malformed) IN
         IF ~requireAuth(q0)
         THEN Respond(r, 401, <<>>) /\ UNCHANGED nextId
         ELSE \E url \in FileUrlInputs :
                LET q1 == [q0 EXCEPT !.body.fileUrl = url] IN
                  IF CreateRejects(q1)
                  THEN Respond(r, 400, <<>>) /\ UNCHANGED nextId
                  ELSE \E b \in bodies :
                         /\ b.fileUrl = url
                         /\ nextId + Pending <= MaxNotes
                         /\ req' = [req EXCEPT ![r] = [q1 EXCEPT !.body = b]]
                         /\ doc' = [doc EXCEPT ![r] =
                              NewNote(nextId, CreateTitle(b.title), b.fileUrl,
                                      Or(b.fileType, JsStr(PDF)), NoThumb,
                                      Owner([q1 EXCEPT !.body = b]), now)]
                         /\ hop' = [hop EXCEPT ![r] = 0]
                         /\ nextId' = nextId + 1
                         /\ Goto(r, "save1")
  /\ UNCHANGED <<notes, now, procVars, fsVars>>

BeginCreate(r) == CreateEntry(r, Bodies)

\* POST /create with any title and any owner field in the body.
BeginCreateAny(r) == CreateEntry(r, AnyBodies)

\* new URL(url).pathname.split('/') for the URLs the model uses.
UrlParts(u) ==
  IF u = CloudUrl
  THEN <<"", "demo", "image", "upload", "v1", "pdf_uploads", "a.pdf">>
  ELSE <<"", "x.pdf">>

\* /^v\d+$/i.test(s)
IsVersion(s) == s \in {"v1"}

\* last.replace(/\.[^.]+$/, '')
StripExt(s) == IF s = "a.pdf" THEN "a" ELSE IF s = "x.pdf" THEN "x" ELSE s

\* The public id as its '/'-separated parts; <<>> stands for null.
derivePublicIdFromUrl(u) ==
  LET parts == UrlParts(u)
      hits == {i \in 1..Len(parts) : parts[i] = "upload"}
  IN IF hits = {} THEN <<>>
     ELSE LET uploadIdx == CHOOSE i \in hits : \A j \in hits : i <= j
              afterUpload == SubSeq(parts, uploadIdx + 1, Len(parts))
              withoutVersion ==
                IF afterUpload # <<>> /\ IsVersion(afterUpload[1])
                THEN Tail(afterUpload) ELSE afterUpload
          IN IF withoutVersion = <<>> THEN <<>>
             ELSE LET last == withoutVersion[Len(withoutVersion)]
                      folders == SubSeq(withoutVersion, 1, Len(withoutVersion) - 1)
                  IN Append(folders, StripExt(last))

\* finalThumb of the eager create handler.
FinalThumb(b) ==
  IF b.thumbnailUrl.t = "string" /\ Trim(b.thumbnailUrl.v) # ""
  THEN GivenThumb(Trim(b.thumbnailUrl.v))
  ELSE LET pid == derivePublicIdFromUrl(b.fileUrl.v) IN
         IF pid # <<>> THEN CdnThumb(pid) ELSE NoThumb

\* The eager version of the create handler.
BeginCreateEager(r) ==
  /\ Free(r)
  /\ calls' = [calls EXCEPT ![r] = {}]
  /\ \E u \in Users \cup {NoUser} :
       LET q0 == Request("createEager", u, NoFile, NoBody, Malformed) IN
         IF ~requireAuth(q0)
         THEN Respond(r, 401, <<>>) /\ UNCHANGED nextId
         ELSE \E url \in FileUrlInputs :
                LET q1 == [q0 EXCEPT !.body.fileUrl = url] IN
                  IF CreateRejects(q1)
                  THEN Respond(r, 400, <<>>) /\ UNCHANGED nextId
                  ELSE \E b \in EagerBodies :
                         /\ b.fileUrl = url
                         /\ nextId + Pending <= MaxEagerNotes
                         /\ req' = [req EXCEPT ![r] = [q1 EXCEPT !.body = b]]
                         /\ doc' = [doc EXCEPT ![r] =
                              NewNote(nextId, CreateTitle(b.title), b.fileUrl,
                                      Or(b.fileType, JsStr(PDF)), FinalThumb(b),
                                      Owner([q1 EXCEPT !.body = b]), now)]
                         /\ hop' = [hop EXCEPT ![r] = 0]
                         /\ nextId' = nextId + 1
                         /\ Goto(r, "saveEager")
  /\ UNCHANGED <<notes, now, procVars, fsVars>>

\* ------------------------------------------------------ the first save()
\* `await note.save()` of the upload and create handlers: validation, then
\* one insert; a ValidationError reaches asyncHandler, which answers 500.
Save1(r) ==
  /\ pc[r] = "save1"
  /\ IF ~NoteValid(doc[r])
     THEN Respond(r, 500, <<>>) /\ UNCHANGED <<notes, calls>>
     ELSE /\ notes' = InsertNote(doc[r])
          /\ Called(r, {"save"})
          /\ Goto(r, "thumb")
          /\ UNCHANGED <<req, doc, hop>>
  /\ UNCHANGED <<nextId, now, procVars, fsVars>>

\* The eager handlers save once and answer.
SaveEager(r) ==
  /\ pc[r] = "saveEager"
  /\ IF ~NoteValid(doc[r])
     THEN Respond(r, 500, <<>>) /\ UNCHANGED <<notes, calls>>
     ELSE /\ notes' = InsertNote(doc[r])
          /\ Called(r, {"save"})
          /\ Respond(r, 201, <<>>)
  /\ UNCHANGED <<nextId, now, procVars, fsVars>>

\* ------------------------------------------ generatePdfThumbnailFromUrl
\* Mutant: the failure is passed on and answered 500.
ThumbNull_surfaces(r) == Respond(r, 500, <<>>)

\* The function returned null: the handler skips the second save and
\* answers 201 with the Note.
ThumbNull(r) == Respond(r, 201, <<>>)

\* Entry: the two early returns, then ensureDirs().
ThumbStart(r) ==
  /\ pc[r] = "thumb"
  /\ IF isServerlessEnv \/ ~pdfPoppler
     THEN ThumbNull(r) /\ UNCHANGED <<thumbsDir, calls>>
     ELSE \E mkdirOk \in BOOLEAN :
            /\ Called(r, {"mkdir"})
            /\ IF mkdirOk
               THEN /\ thumbsDir' = TRUE
                    /\ Goto(r, "fetch")
                    /\ UNCHANGED <<req, doc, hop>>
               ELSE UNCHANGED thumbsDir /\ ThumbNull(r)
  /\ UNCHANGED <<notes, nextId, now, procVars, thumbFiles, tmpFiles>>

\* downloadToTemp: one GET. The write stream's file is unlinked on a
\* redirect (followed by a new attempt, without any limit on their number:
\* hop is the place in the host's chain of redirects, which may lead back to
\* its start), on a status >= 400 and on a request error; otherwise the body
\* is piped and the path resolves.
downloadToTemp(r) ==
  /\ pc[r] = "fetch"
  /\ Called(r, {"tmp", "download"})
  /\ \E answer \in {"redirect", "httpError", "error", "ok"} :
       CASE answer = "redirect" ->
              /\ hop' = [hop EXCEPT ![r] = IF @ < MaxRedirects THEN @ + 1 ELSE 0]
              /\ tmpFiles' = tmpFiles \ {tmpPath(doc[r]._id, hop[r])}
              /\ Goto(r, "fetch")
              /\ UNCHANGED <<req, doc>>
         [] answer \in {"httpError", "error"} ->
              /\ tmpFiles' = tmpFiles \ {tmpPath(doc[r]._id, hop[r])}
              /\ ThumbNull(r)
         [] OTHER ->
              /\ tmpFiles' = tmpFiles \cup {tmpPath(doc[r]._id, hop[r])}
              /\ Goto(r, "convert")
              /\ UNCHANGED <<req, doc, hop>>
  /\ UNCHANGED <<notes, nextId, now, procVars, thumbsDir, thumbFiles>>

\* pdfPoppler.convert(tmpPdf, opts): it rejects (the outer catch returns
\* null), or resolves having written <id>-1.png, <id>.png or nothing.
Convert(r) ==
  /\ pc[r] = "convert"
  /\ Called(r, {"convert"})
  /\ \E outcome \in {"reject", "page", "final", "nothing"} :
       CASE outcome = "reject" -> ThumbNull(r) /\ UNCHANGED thumbFiles
         [] outcome = "page" ->
              /\ thumbFiles' = thumbFiles \cup {generatedPath(doc[r]._id)}
              /\ Goto(r, "finalize")
              /\ UNCHANGED <<req, doc, hop>>
         [] outcome = "final" ->
              /\ thumbFiles' = thumbFiles \cup {finalPath(doc[r]._id)}
              /\ Goto(r, "finalize")
              /\ UNCHANGED <<req, doc, hop>>
         [] OTHER -> /\ Goto(r, "finalize")
                     /\ UNCHANGED <<thumbFiles, req, doc, hop>>
  /\ UNCHANGED <<notes, nextId, now, procVars, thumbsDir, tmpFiles>>

\* access / rename / unlink / return: srcPath is the generated file when it
\* exists; a failed rename is ignored; the temp file is unlinked; the public
\* path is returned, the handler assigns it and calls save() again.
Finalize(r) ==
  /\ pc[r] = "finalize"
  /\ LET id == doc[r]._id IN
       /\ IF generatedPath(id) \in thumbFiles
          THEN \E renameOk \in BOOLEAN :
                 thumbFiles' = IF renameOk
                               THEN (thumbFiles \ {generatedPath(id)})
                                      \cup {finalPath(id)}
                               ELSE thumbFiles
          ELSE UNCHANGED thumbFiles
       /\ tmpFiles' = tmpFiles \ {tmpPath(id, hop[r])}
       /\ doc' = [doc EXCEPT ![r].thumbnailUrl = LocalThumb(id)]
  /\ Goto(r, "save2")
  /\ UNCHANGED <<notes, nextId, now, procVars, thumbsDir, req, hop, calls>>

\* The second save(), inside the handler's try: an update of thumbnailUrl;
\* when the Note is gone the update matches nothing and whatever save()
\* throws is caught. Then the 201.
Save2(r) ==
  /\ pc[r] = "save2"
  /\ notes' = SaveModified(doc[r])
  /\ Called(r, {"update"})
  /\ Respond(r, 201, <<>>)
  /\ UNCHANGED <<nextId, now, procVars, fsVars>>

\* ------------------------------------------------- DELETE /api/notes/:id
\* requireAuth and validateObjectId; checkOwnership then reads the Note.
BeginDelete(r) ==
  /\ Free(r)
  /\ calls' = [calls EXCEPT ![r] = {}]
  /\ \E u \in Users \cup {NoUser} :
       LET q0 == Request("delete", u, NoFile, NoBody, Malformed) IN
         IF ~requireAuth(q0)
         THEN Respond(r, 401, <<>>)
         ELSE \E p \in IdParams :
                LET q1 == [q0 EXCEPT !.id = p] IN
                  IF ~validateObjectId(q1) THEN Respond(r, 400, <<>>)
                  ELSE /\ req' = [req EXCEPT ![r] = q1]
                       /\ Goto(r, "own")
                       /\ UNCHANGED <<doc, hop>>
  /\ UNCHANGED <<notes, nextId, now, procVars, fsVars>>

\* checkOwnership(Note) answers 404 or 403, or calls next().
DeleteOwnership(r) ==
  /\ pc[r] = "own"
  /\ LET c == checkOwnership(req[r]) IN
       IF c # 0 THEN Respond(r, c, <<>>)
       ELSE Goto(r, "del") /\ UNCHANGED <<req, doc, hop>>
  /\ UNCHANGED <<notes, nextId, now, procVars, fsVars, calls>>

\* The handler: findByIdAndDelete, then 'Note deleted successfully'.
DeleteNote(r) ==
  /\ pc[r] = "del"
  /\ notes' = findByIdAndDelete(req[r].id.oid)
  /\ Called(r, {"delete"})
  /\ Respond(r, 200, <<>>)
  /\ UNCHANGED <<nextId, now, procVars, fsVars>>

\* ------------------------------------------------------------- queries
AllFilter == [op |-> "all", v |-> ""]
UploaderFilter(u) == [op |-> "uploader", v |-> u]
\* { $or: [ { uploaderName: x }, { 'uploader.username': x } ] }
NameFilter(x) == [op |-> "byName", v |-> x]

UserNames == {"Ann", "ann", "bob"}
Filters == {AllFilter} \cup {UploaderFilter(u) : u \in Users}
             \cup {NameFilter(x) : x \in UserNames}

\* The stored uploader is an ObjectId: the path uploader.username has no
\* value in any stored Note.
UploaderUsernameIs(n, x) == FALSE

Matches(n, f) ==
  CASE f.op = "all" -> TRUE
    [] f.op = "uploader" -> n.uploader = f.v
    [] OTHER -> n.uploaderName = f.v \/ UploaderUsernameIs(n, f.v)

\* Note.find(filter): the matching documents in _id order, as a sequence of
\* ids.
RECURSIVE Scan(_, _)
Scan(i, f) ==
  IF i = 0 THEN <<>>
  ELSE IF i \in DOMAIN notes /\ Matches(notes[i], f)
       THEN Append(Scan(i - 1, f), i)
       ELSE Scan(i - 1, f)

Find(f) == Scan(nextId - 1, f)

\* The order of .sort({ uploadedAt: -1 }): a comes no later than b.
Before(a, b) == notes[a].uploadedAt >= notes[b].uploadedAt

\* Insert id x into a sequence already in sort order.
RECURSIVE InsertSorted(_, _)
InsertSorted(s, x) ==
  IF s = <<>> THEN <<x>>
  ELSE IF Before(Head(s), x) THEN <<Head(s)>> \o InsertSorted(Tail(s), x)
       ELSE <<x>> \o s

\* Mutant: the query is not sorted.
SortByUploadedAt_none(s) == s

\* .sort({ uploadedAt: -1 })
RECURSIVE SortByUploadedAt(_)
SortByUploadedAt(s) ==
  IF s = <<>> THEN <<>>
  ELSE InsertSorted(SortByUploadedAt(Tail(s)), Head(s))

\* NoteService.getAllNotes(filters)
getAllNotes(f) == SortByUploadedAt(Find(f))

\* NoteService.getNotesByUploader(identifier): an id-shaped identifier is
\* matched against uploader, any other against the names.
getNotesByUploader(ident) ==
  IF ident \in Users THEN getAllNotes(UploaderFilter(ident))
  ELSE getAllNotes(NameFilter(ident))

\* GET /api/notes (JSON): Note.find().populate(...).sort({uploadedAt: -1})
ListNotes(r) ==
  /\ Free(r)
  /\ Respond(r, 200, SortByUploadedAt(Find(AllFilter)))
  /\ calls' = [calls EXCEPT ![r] = {}]
  /\ UNCHANGED <<notes, nextId, now, procVars, fsVars>>

\* GET /api/notes/user/:username (JSON)
ListByUser(r) ==
  /\ Free(r)
  /\ \E x \in UserNames :
       Respond(r, 200, SortByUploadedAt(Find(NameFilter(x))))
  /\ calls' = [calls EXCEPT ![r] = {}]
  /\ UNCHANGED <<notes, nextId, now, procVars, fsVars>>

\* GET /api/notes/download/:id: 400, 404, or a redirect to the fileUrl.
DownloadNote(r) ==
  /\ Free(r)
  /\ \E p \in IdParams :
       LET q == Request("download", NoUser, NoFile, NoBody, p) IN
         IF ~validateObjectId(q) THEN Respond(r, 400, <<>>)
         ELSE IF findById(p.oid) = NoDoc THEN Respond(r, 404, <<>>)
         ELSE Respond(r, 302, <<findById(p.oid).fileUrl>>)
  /\ calls' = [calls EXCEPT ![r] = {}]
  /\ UNCHANGED <<notes, nextId, now, procVars, fsVars>>

\* ------------------------------------------------------- the OTP verifier
Emails == {"a@x"}
Purposes == {"signup", "reset"}
OtpKeys == Emails \X Purposes
\* The six-digit codes the generator draws from.
Codes == {"111111", "222222"}

\* Lifetime of a code, in ticks of the clock.
OtpTtl == 1

NoCode == [code |-> "", expires |-> 0]

OtpEntry(k, c, e, v) == [key |-> k, code |-> c, expires |-> e, verified |-> v]

\* Mutant: a new code is added next to the codes already in the table.
StoreCode_appends(k, c) == otp \cup {OtpEntry(k, c, now + OtpTtl, FALSE)}

\* The table after a new code is stored under the key: the prior entry of
\* the key is overwritten.
StoreCode(k, c) ==
  {e \in otp : e.key # k} \cup {OtpEntry(k, c, now + OtpTtl, FALSE)}

\* The entries verifyCode accepts: same key, same code, expiry not elapsed.
LiveMatches(k, c) ==
  {e \in otp : e.key = k /\ e.code = c /\ now < e.expires}

\* The purpose a verification route checks.
OtpPurpose(kind) == IF kind = "verifySignup" THEN "signup" ELSE "reset"

\* The handler has answered; its request stays in the slot until the next.
OtpRespond(r, status) ==
  /\ pc' = [pc EXCEPT ![r] = "done"]
  /\ res' = [res EXCEPT ![r] = [status |-> status, data |-> <<>>]]

\* requestCode(email, purpose): refused when the account exists (signup) or
\* does not (reset); otherwise a code is generated, stored and mailed, and a
\* failed dispatch is reported without taking the code back.
RequestCode(r) ==
  /\ Free(r)
  /\ \E k \in OtpKeys, refused \in BOOLEAN :
       /\ req' = [req EXCEPT ![r] =
                   [Request("requestCode", NoUser, NoFile, NoBody, Malformed)
                      EXCEPT !.body.email = JsStr(k[1])]]
       /\ IF refused
          THEN /\ OtpRespond(r, IF k[2] = "signup" THEN 409 ELSE 404)
               /\ calls' = [calls EXCEPT ![r] = {}]
               /\ UNCHANGED <<otp, issued>>
          ELSE \E c \in Codes, sendOk \in BOOLEAN :
                 /\ otp' = StoreCode(k, c)
                 /\ issued' = [issued EXCEPT ![k] =
                                 [code |-> c, expires |-> now + OtpTtl]]
                 /\ calls' = [calls EXCEPT ![r] = {"mail"}]
                 /\ OtpRespond(r, IF sendOk THEN 200 ELSE 500)
  /\ UNCHANGED <<notes, nextId, now, env, pdfPoppler, fsVars, doc, hop>>

\* POST /api/verify-otp and /api/password-reset/verify-otp arrive.
BeginVerify(r) ==
  /\ Free(r)
  /\ \E kind \in {"verifySignup", "verifyReset"}, e \in Emails, c \in Codes :
       req' = [req EXCEPT ![r] =
                 [Request(kind, NoUser, NoFile, NoBody, Malformed)
                    EXCEPT !.body.email = JsStr(e), !.body.otp = JsStr(c)]]
  /\ Goto(r, "otpVerify")
  /\ calls' = [calls EXCEPT ![r] = {}]
  /\ UNCHANGED <<notes, nextId, now, procVars, fsVars, doc, hop>>

\* verifyCode(email, purpose, code): InvalidOrExpired (400) unless a live
\* entry matches; on success the entry is marked verified and kept.
VerifyCode(r) ==
  /\ pc[r] = "otpVerify"
  /\ LET k == <<req[r].body.email.v, OtpPurpose(req[r].kind)>>
         hit == LiveMatches(k, req[r].body.otp.v)
     IN IF hit = {}
        THEN OtpRespond(r, 400) /\ UNCHANGED <<otp, calls>>
        ELSE /\ otp' = (otp \ hit) \cup {[e EXCEPT !.verified = TRUE] : e \in hit}
             /\ Called(r, {"verified"})
             /\ OtpRespond(r, 200)
  /\ UNCHANGED <<notes, nextId, now, env, pdfPoppler, issued, fsVars,
                 req, doc, hop>>

\* confirmReset(email, code, newPassword): the entry must match and be
\* marked verified; the password is replaced and the entry deleted.
ConfirmReset(r) ==
  /\ Free(r)
  /\ \E e \in Emails, c \in Codes :
       LET k == <<e, "reset">>
           hit == {x \in LiveMatches(k, c) : x.verified}
       IN /\ req' = [req EXCEPT ![r] =
                      [Request("confirmReset", NoUser, NoFile, NoBody, Malformed)
                         EXCEPT !.body.email = JsStr(e), !.body.otp = JsStr(c)]]
          /\ IF hit = {}
             THEN /\ OtpRespond(r, 400)
                  /\ calls' = [calls EXCEPT ![r] = {}]
                  /\ UNCHANGED otp
             ELSE /\ otp' = otp \ hit
                  /\ calls' = [calls EXCEPT ![r] = {"password"}]
                  /\ OtpRespond(r, 200)
  /\ UNCHANGED <<notes, nextId, now, env, pdfPoppler, issued, fsVars, doc, hop>>

\* ---------------------------------------------------------------- clock
Tick ==
  /\ now < MaxTime
  /\ now' = now + 1
  /\ UNCHANGED <<notes, nextId, procVars, fsVars, pc, req, doc,
                 hop, res, calls>>

\* ------------------------------------------------------- specification
\* The process environments the model starts in: no signal set, one signal
\* set, or VERCEL set to the empty string.
EnvConfigs ==
  {[v \in EnvVars |-> Unset]}
    \cup {[v \in EnvVars |-> IF v = w THEN "1" ELSE Unset] : w \in EnvVars}
    \cup {[v \in EnvVars |-> IF v = "VERCEL" THEN "" ELSE Unset]}

Init ==
  /\ notes = <<>>
  /\ nextId = 1
  /\ now = 0
  /\ env \in EnvConfigs
  /\ pdfPoppler \in BOOLEAN
  /\ thumbsDir = FALSE
  /\ thumbFiles = {}
  /\ tmpFiles = {}
  /\ pc = [r \in Requests |-> "idle"]
  /\ req = [r \in Requests |-> NoRequest]
  /\ doc = [r \in Requests |-> NoDoc]
  /\ hop = [r \in Requests |-> 0]
  /\ res = [r \in Requests |-> NoRes]
  /\ otp = {}
  /\ issued = [k \in OtpKeys |-> NoCode]
  /\ calls = [r \in Requests |-> {}]

\* The first version of the router (local thumbnails), any two requests
\* at a time. Its claims do not read the clock, which stands still here.
Next ==
  \/ \E r \in Requests : BeginUpload(r)
  \/ \E r \in Requests : UploadCdnDone(r)
  \/ \E r \in Requests : BeginCreate(r)
  \/ \E r \in Requests : Save1(r)
  \/ \E r \in Requests : ThumbStart(r)
  \/ \E r \in Requests : downloadToTemp(r)
  \/ \E r \in Requests : Convert(r)
  \/ \E r \in Requests : Finalize(r)
  \/ \E r \in Requests : Save2(r)
  \/ \E r \in Requests : BeginDelete(r)
  \/ \E r \in Requests : DeleteOwnership(r)
  \/ \E r \in Requests : DeleteNote(r)
  \/ \E r \in Requests : ListNotes(r)
  \/ \E r \in Requests : ListByUser(r)
  \/ \E r \in Requests : DownloadNote(r)

Spec == Init /\ [][Next]_vars

\* The eager version of the router (thumbnails derived by the CDN).
NextEager ==
  \/ \E r \in Requests : BeginUploadEager(r)
  \/ \E r \in Requests : UploadEagerCdnDone(r)
  \/ \E r \in Requests : BeginCreateEager(r)
  \/ \E r \in Requests : SaveEager(r)
  \/ \E r \in Requests : BeginDelete(r)
  \/ \E r \in Requests : DeleteOwnership(r)
  \/ \E r \in Requests : DeleteNote(r)
  \/ \E r \in Requests : ListNotes(r)
  \/ \E r \in Requests : ListByUser(r)
  \/ \E r \in Requests : DownloadNote(r)
  \/ Tick

\* The eager version never reads the environment of the thumbnail service.
InitEager == Init /\ pdfPoppler /\ \A v \in EnvVars : env[v] = Unset

SpecEager == InitEager /\ [][NextEager]_vars

\* The first version of the router under request bodies with any title and
\* any owner field: the two creating handlers, whole, and the list.
NextAny ==
  \/ \E r \in Requests : BeginUploadAny(r)
  \/ \E r \in Requests : UploadCdnDone(r)
  \/ \E r \in Requests : BeginCreateAny(r)
  \/ \E r \in Requests : Save1(r)
  \/ \E r \in Requests : ThumbStart(r)
  \/ \E r \in Requests : downloadToTemp(r)
  \/ \E r \in Requests : Convert(r)
  \/ \E r \in Requests : Finalize(r)
  \/ \E r \in Requests : Save2(r)
  \/ \E r \in Requests : ListNotes(r)

InitAny == Init /\ \A v \in EnvVars : env[v] = Unset

SpecAny == InitAny /\ [][NextAny]_vars

\* POST /create and its thumbnail stage, every awaited operation of which
\* settles: the database answers, the host answers each GET, the
\* rasterizer exits and the file system calls return.
NextLive ==
  \/ \E r \in Requests : BeginCreate(r)
  \/ \E r \in Requests : Save1(r)
  \/ \E r \in Requests : ThumbStart(r)
  \/ \E r \in Requests : downloadToTemp(r)
  \/ \E r \in Requests : Convert(r)
  \/ \E r \in Requests : Finalize(r)
  \/ \E r \in Requests : Save2(r)

Settles ==
  \A r \in Requests :
    /\ WF_vars(Save1(r)) /\ WF_vars(ThumbStart(r))
    /\ WF_vars(downloadToTemp(r)) /\ WF_vars(Convert(r))
    /\ WF_vars(Finalize(r)) /\ WF_vars(Save2(r))

SpecLive == InitEager /\ [][NextLive]_vars /\ Settles

\* The OTP verifier and the clock.
NextOtp ==
  \/ \E r \in Requests : RequestCode(r)
  \/ \E r \in Requests : BeginVerify(r)
  \/ \E r \in Requests : VerifyCode(r)
  \/ \E r \in Requests : ConfirmReset(r)
  \/ Tick

SpecOtp == InitEager /\ [][NextOtp]_vars

\* ================================================================ claims
NoteIds == 1..(MaxNotes + MaxEagerNotes)

\* A request took a step.
Acted(r) == <<pc[r], hop[r]>> # <<pc'[r], hop'[r]>>

\* ---------------------------------------------------------------- C1
\* C1: a DELETE removes the Note iff the session user is the stored
\* uploader. The ownership check lets exactly the owner through and answers
\* a non-owner 403 leaving the store as it was, the Note still found by
\* getNoteById; the handler then removes the Note; and a Note only ever
\* leaves the store through a DELETE of its owner.
C1_DeleteIffOwner ==
  [][/\ \A r \in Requests :
          /\ (pc[r] = "own" /\ Acted(r)) =>
               LET n == getNoteById(req[r].id) IN
                 /\ notes' = notes
                 /\ IF n = NoDoc THEN res'[r].status = 404
                    ELSE IF n.uploader = req[r].user THEN pc'[r] = "del"
                    ELSE /\ pc'[r] = "done" /\ res'[r].status = 403
                         /\ req[r].id.oid \in DOMAIN notes'
                         /\ notes'[req[r].id.oid] = n
          /\ (pc[r] = "del" /\ Acted(r)) =>
               /\ req[r].id.oid \notin DOMAIN notes'
               /\ res'[r].status = 200
     /\ \A id \in DOMAIN notes :
          id \notin DOMAIN notes' =>
            \E r \in Requests :
              /\ pc[r] = "del" /\ pc'[r] = "done"
              /\ req[r].kind = "delete" /\ req[r].id = Oid(id)
              /\ req[r].user = notes[id].uploader]_vars

\* A non-owner was answered 403 and the owner's DELETE then removed the Note.
C1_Witness ==
  \E r1, r2 \in Requests :
    /\ res[r1].status = 403 /\ calls[r1] = {}
    /\ res[r2].status = 200 /\ calls[r2] = {"delete"}
    /\ nextId = 2 /\ notes = <<>>

\* ---------------------------------------------------------------- C2
\* Stage of a Note id: 0 nonexistent (not constructed, or constructed and
\* not yet saved), 1 created without thumbnail, 2 created with thumbnail,
\* 3 gone (deleted, or refused by validation at its first save).
Stage(ns, next, pcs, docs, id) ==
  IF id \in DOMAIN ns
  THEN IF ns[id].thumbnailUrl = NoThumb THEN 1 ELSE 2
  ELSE IF id >= next THEN 0
  ELSE IF \E r \in Requests : pcs[r] \in {"save1", "saveEager"} /\ docs[r]._id = id
       THEN 0
       ELSE 3

\* C2: under every interleaving a Note id moves only forward through
\* nonexistent -> created without thumbnail -> created with thumbnail ->
\* deleted; the thumbnail never goes back to empty and a deleted id never
\* exists again, whatever second save is still pending.
C2_Lifecycle ==
  [][\A id \in NoteIds :
       LET a == Stage(notes, nextId, pc, doc, id)
           b == Stage(notes', nextId', pc', doc', id)
       IN /\ <<a, b>> \in {<<0, 0>>, <<0, 1>>, <<0, 3>>, <<1, 1>>, <<1, 2>>,
                           <<1, 3>>, <<2, 2>>, <<2, 3>>, <<3, 3>>}
          /\ (a = 2 /\ b = 2) => notes'[id].thumbnailUrl = notes[id].thumbnailUrl]_vars

\* The second save of a create or upload is pending and its Note is gone.
C2_Witness ==
  \E r \in Requests : pc[r] = "save2" /\ doc[r]._id \notin DOMAIN notes

\* ---------------------------------------------------------------- C3
\* C3: every Note is stored with the fileUrl and uploader its request
\* constructed it with, no step changes the fileUrl or uploader of a stored
\* Note, and the second save writes thumbnailUrl only.
C3_FileUrlOwnerImmutable ==
  [][/\ \A id \in (DOMAIN notes) \cap (DOMAIN notes') :
          /\ notes'[id].fileUrl = notes[id].fileUrl
          /\ notes'[id].uploader = notes[id].uploader
     /\ \A r \in Requests :
          /\ (pc[r] = "save1" /\ doc[r]._id \in DOMAIN notes') =>
               /\ notes'[doc[r]._id].fileUrl = doc[r].fileUrl
               /\ notes'[doc[r]._id].uploader = req[r].user
          /\ (pc[r] = "save2" /\ Acted(r)) =>
               /\ DOMAIN notes' = DOMAIN notes
               /\ \A id \in DOMAIN notes :
                    notes'[id] =
                      [notes[id] EXCEPT !.thumbnailUrl = notes'[id].thumbnailUrl]]_vars

\* The second save has stored a thumbnail for a Note.
C3_Witness ==
  \E id \in DOMAIN notes : notes[id].thumbnailUrl = LocalThumb(id)

\* ---------------------------------------------------------------- C4
\* C4: an upload whose CDN call fails ends there, with no Note constructed
\* and no save made, and no Note in the store has an empty fileUrl.
C4_NoNoteWithoutFile ==
  [][/\ \A r \in Requests :
          (pc[r] = "cdn" /\ pc'[r] = "done") =>
            /\ notes' = notes /\ nextId' = nextId
            /\ calls'[r] = {"cdn"}
     /\ \A id \in DOMAIN notes' : notes'[id].fileUrl # ""]_vars

\* The CDN call of an upload failed: no Note constructed or stored.
C4_Witness ==
  \E r \in Requests :
    /\ pc[r] = "done" /\ res[r].status = 500 /\ calls[r] = {"cdn"}
    /\ nextId = 1 /\ notes = <<>>

\* ---------------------------------------------------------------- C5
ThumbPcs == {"thumb", "fetch", "convert", "finalize", "save2"}

\* C5: no step of the thumbnail stage removes or adds a Note, the request
\* can only end with 201, and when generation gave no path (or the second
\* save found no document) the store is left as it was, the Note without
\* thumbnailUrl.
C5_ThumbFailureNonFatal ==
  [][\A r \in Requests :
       (pc[r] \in ThumbPcs /\ Acted(r)) =>
         LET id == doc[r]._id IN
           /\ DOMAIN notes' = DOMAIN notes
           /\ pc'[r] = "done" => res'[r].status = 201
           /\ (pc'[r] = "done" /\ pc[r] # "save2") =>
                /\ notes' = notes
                /\ id \in DOMAIN notes => notes[id].thumbnailUrl = NoThumb
           /\ (pc[r] = "save2" /\ id \notin DOMAIN notes) => notes' = notes]_vars

\* Rasterization failed, the request was answered 201 and its Note is
\* stored without a thumbnail.
C5_Witness ==
  \E r \in Requests :
    /\ pc[r] = "done" /\ res[r].status = 201
    /\ "convert" \in calls[r] /\ "update" \notin calls[r]
    /\ 1 \in DOMAIN notes /\ notes[1].thumbnailUrl = NoThumb

\* ---------------------------------------------------------------- C6
\* C6: a temp file exists only while the call that wrote it is between the
\* download and its return; none is left once the call has returned.
C6_TempFileReleased ==
  \A f \in tmpFiles :
    \E r \in Requests : doc[r]._id = f[1] /\ pc[r] \in {"convert", "finalize"}

\* ---------------------------------------------------------------- C7
\* C7: every Note that POST /upload has stored has the PDF fileType.
C7_UploadOnlyPdf ==
  \A r \in Requests :
    (req[r].kind = "upload" /\ doc[r]._id \in DOMAIN notes) =>
      notes[doc[r]._id].fileType = PDF

\* ---------------------------------------------------------------- C8
\* C8: a request answered 400, 401 or 403 has made no CDN upload, save,
\* delete, download or rasterization, and every request that is past its
\* checks has a session user, a file (upload), a non-empty string fileUrl
\* (create), a well-formed id (delete) and, at the delete itself, is the
\* owner of the Note it removes.
C8_ChecksFirst ==
  \A r \in Requests :
    /\ res[r].status \in {400, 401, 403} => calls[r] = {}
    /\ pc[r] \notin {"idle", "done"} =>
         /\ req[r].user \in Users
         /\ req[r].kind = "upload" => req[r].file.t = "file"
         /\ req[r].kind = "create" =>
              req[r].body.fileUrl.t = "string" /\ req[r].body.fileUrl.v # ""
         /\ req[r].kind = "delete" => req[r].id.wellFormed
         /\ (pc[r] = "del" /\ req[r].id.oid \in DOMAIN notes) =>
              notes[req[r].id.oid].uploader = req[r].user

\* A non-owner's DELETE was answered 403 and a request without a valid
\* fileUrl or file 400, neither having made a call.
C8_Witness ==
  \E r1, r2 \in Requests :
    /\ res[r1].status = 403 /\ calls[r1] = {}
    /\ res[r2].status = 400 /\ calls[r2] = {}
    /\ notes # <<>>

\* ---------------------------------------------------------------- C9
\* One of the four signals is set (to a non-empty value).
Flagged == \E v \in EnvVars : env[v] \notin {Unset, ""}

\* C9: in a flagged environment the thumbnail directory is never created,
\* no PDF is downloaded, no temp file or thumbnail is written, the
\* rasterizer is never invoked and no Note gets a thumbnailUrl.
C9_ServerlessSkips ==
  Flagged =>
    /\ ~thumbsDir /\ tmpFiles = {} /\ thumbFiles = {}
    /\ \A r \in Requests :
         /\ calls[r] \cap {"mkdir", "tmp", "download", "convert", "update"} = {}
         /\ pc[r] \notin {"fetch", "convert", "finalize", "save2"}
    /\ \A id \in DOMAIN notes : notes[id].thumbnailUrl = NoThumb

\* In a flagged environment with the rasterizer installed a create was
\* answered 201 after its one save.
C9_Witness ==
  /\ Flagged /\ pdfPoppler
  /\ \E r \in Requests :
       /\ pc[r] = "done" /\ res[r].status = 201 /\ calls[r] = {"save"}
       /\ notes # <<>>

\* ---------------------------------------------------------------- C10
\* What a filter asks for.
Wanted(n, f) ==
  \/ f.op = "all"
  \/ f.op = "uploader" /\ n.uploader = f.v
  \/ f.op = "byName" /\ n.uploaderName = f.v

\* C10: for every filter getAllNotes returns each matching Note once and no
\* other, each Note's uploadedAt at least that of the Note after it.
C10_ListSorted ==
  \A f \in Filters :
    LET s == getAllNotes(f)
        want == {id \in DOMAIN notes : Wanted(notes[id], f)}
    IN /\ {s[i] : i \in 1..Len(s)} = want
       /\ Len(s) = Cardinality(want)
       /\ \A i \in 1..(Len(s) - 1) :
            notes[s[i]].uploadedAt >= notes[s[i + 1]].uploadedAt

\* GET /api/notes answered with two Notes, the later one first.
C10_Witness ==
  \E r \in Requests :
    /\ pc[r] = "done" /\ res[r].status = 200
    /\ Len(res[r].data) = 2
    /\ res[r].data = getAllNotes(AllFilter)
    /\ notes[res[r].data[1]].uploadedAt > notes[res[r].data[2]].uploadedAt

\* ---------------------------------------------------------------- C11
\* C11: no stored Note has a blank title (empty or whitespace only): a blank
\* title was replaced by the file name or by "Untitled" before the save.
C11_NoBlankTitle ==
  \A id \in DOMAIN notes : Trim(notes[id].title) # ""

\* ---------------------------------------------------------------- C12
\* C12: whatever the body carries, the Note a create or upload constructs,
\* stores and answers 201 with has the session user as its uploader.
C12_OwnerIsSessionUser ==
  [][\A r \in Requests :
       (pc[r] \in {"save1"} \cup ThumbPcs /\ Acted(r)) =>
         /\ doc[r].uploader = req[r].user
         /\ doc[r]._id \in DOMAIN notes' =>
              notes'[doc[r]._id].uploader = req[r].user]_vars

\* A request of u1 whose body names u2 as the uploader has stored its Note
\* and is about to answer; the Note belongs to u1.
C12_Witness ==
  \E r \in Requests :
    /\ pc[r] \in ThumbPcs /\ req[r].user = "u1"
    /\ req[r].body.uploader = JsStr("u2")
    /\ doc[r]._id \in DOMAIN notes /\ notes[doc[r]._id].uploader = "u1"

\* ---------------------------------------------------------------- C13
\* C13: the OTP table holds at most one entry per (email, purpose), and a
\* verifyCode succeeds only with the code the most recent requestCode of
\* the key issued and before that code's expiry; with any earlier code, or
\* with the right code after expiry, it answers 400 (InvalidOrExpired).
C13_OnlyLatestCodeVerifies ==
  /\ [](\A k \in OtpKeys : Cardinality({e \in otp : e.key = k}) <= 1)
  /\ [][\A r \in Requests :
          (pc[r] = "otpVerify" /\ Acted(r)) =>
            LET k == <<req[r].body.email.v, OtpPurpose(req[r].kind)>>
                fresh == /\ req[r].body.otp.v = issued[k].code
                         /\ now < issued[k].expires
            IN /\ res'[r].status \in {200, 400}
               /\ res'[r].status = 200 => fresh
               /\ ~fresh => (res'[r].status = 400 /\ otp' = otp)]_vars

\* Two codes were issued for a key, and a verification with the first was
\* answered 400 while the second, unexpired, is in the table.
C13_Witness ==
  \E r \in Requests :
    LET k == <<req[r].body.email.v, OtpPurpose(req[r].kind)>> IN
      /\ pc[r] = "done" /\ req[r].kind = "verifySignup"
      /\ res[r].status = 400
      /\ issued[k] # NoCode /\ issued[k].code # req[r].body.otp.v
      /\ now < issued[k].expires
      /\ \E e \in otp : e.key = k /\ e.code = issued[k].code

\* ---------------------------------------------------------------- C14
\* C14: a thumbnail path is returned, and stored in a Note, only when the
\* file <noteId>.png exists in the thumbnails directory.
C14_ThumbFileExists ==
  /\ \A r \in Requests :
       pc[r] = "save2" => finalPath(doc[r]._id) \in thumbFiles
  /\ \A id \in DOMAIN notes :
       notes[id].thumbnailUrl = LocalThumb(id) => finalPath(id) \in thumbFiles

\* ---------------------------------------------------------------- C15
\* C15: a request whose Note has been saved eventually sends its response,
\* whatever the file host answers.
C15_EventuallyResponds ==
  \A r \in Requests : (pc[r] = "thumb") ~> (pc[r] = "done")

====
